---------------------------- MODULE Spec2Model ----------------------------
(***************************************************************************)
(* State-machine model of src/app.py: the settings loader and file         *)
(* watcher, the per-IP rate limiter with bans, the API-token table and the *)
(* token decorator, the whitelist, and the templated upstream fetch.       *)
(*                                                                         *)
(* A request is served in three steps, in the order Flask runs them:       *)
(* before_request, the require_api_token wrapper, the view function; an    *)
(* abort() or a return ends it and the response is sent.                   *)
(*                                                                         *)
(* check_rate_limit is modelled twice: as one step of before_request, for  *)
(* requests served one at a time, and statement by statement (the T_L...   *)
(* actions), for request threads that interleave with each other and with  *)
(* the watcher thread.                                                     *)
(***************************************************************************)
EXTENDS Integers, Sequences, FiniteSets, TLC

\* ------------------------------------------------------------------ bounds
\* Last value of the clock (time.time(), in whole ticks).
MaxTime == 4
\* Number of times settings.json is rewritten or deleted.
MaxEdits == 2
\* Number of requests the clients send.
MaxRequests == 6
\* Number of requests served by the threads that run check_rate_limit
\* statement by statement.
MaxCalls == 4

\* ------------------------------------------------------------- the domains
IPs == {"ip1", "ip2"}
Tokens == {"t1", "t2"}
NoToken == "<no API-TOKEN header>"
\* The rows of api_tokens when the process starts.
SeededTokens == {"t1"}

\* required_keys of load_settings
RequiredKeys ==
    {"RATE_LIMIT_PER_PERIOD", "RATE_LIMIT_PERIOD_SECONDS", "BAN_DURATION_SECONDS",
     "MAX_BAN_COUNT", "DB_HOST", "DB_USER", "DB_PASSWORD", "DB_NAME",
     "API_TOKEN_LENGTH"}

\* Two complete settings objects; CfgB also carries the optional WHITELISTED_IPS
\* and PASTEBIN_URL.
CfgA ==
    [RATE_LIMIT_PER_PERIOD |-> 1, RATE_LIMIT_PERIOD_SECONDS |-> 2,
     BAN_DURATION_SECONDS |-> 2, MAX_BAN_COUNT |-> 2,
     DB_HOST |-> "h", DB_USER |-> "u", DB_PASSWORD |-> "p", DB_NAME |-> "n",
     API_TOKEN_LENGTH |-> 24]

CfgB ==
    [RATE_LIMIT_PER_PERIOD |-> 2, RATE_LIMIT_PERIOD_SECONDS |-> 1,
     BAN_DURATION_SECONDS |-> 1, MAX_BAN_COUNT |-> 1,
     DB_HOST |-> "h", DB_USER |-> "u", DB_PASSWORD |-> "p", DB_NAME |-> "n",
     API_TOKEN_LENGTH |-> 24, WHITELISTED_IPS |-> {"ip2"}, PASTEBIN_URL |-> "paste"]

\* A settings object that lacks the required key MAX_BAN_COUNT.
CfgPartial ==
    [RATE_LIMIT_PER_PERIOD |-> 1, RATE_LIMIT_PERIOD_SECONDS |-> 2,
     BAN_DURATION_SECONDS |-> 1,
     DB_HOST |-> "h", DB_USER |-> "u", DB_PASSWORD |-> "p", DB_NAME |-> "n",
     API_TOKEN_LENGTH |-> 24]

\* What settings.json can hold: a JSON object, text that is not JSON, a JSON
\* scalar (a number), or nothing (the file does not exist).
FileContents ==
    {[json |-> "object", obj |-> CfgA], [json |-> "object", obj |-> CfgB],
     [json |-> "object", obj |-> CfgPartial],
     [json |-> "malformed"], [json |-> "number"], [json |-> "absent"]}

\* The value of the global SETTINGS before load_settings has returned.
NoSettings == [unset |-> TRUE]

VARIABLES
    proc,                 \* "boot" | "main" | "serving" | "exited"
    file,                 \* settings.json: [content, mtime]
    SETTINGS,             \* the global SETTINGS
    watcher,              \* the watcher thread: [state, last_modified]
    now,                  \* the clock read by time.time()
    request_timestamps,   \* ip -> deque of admission times
    ban_list,             \* ip -> ban-until
    ban_counts,           \* ip -> number of rate-limit violations
    api_tokens,           \* table api_tokens: token -> [is_valid, last_used]
    whitelisted_ips,      \* table whitelisted_ips
    req,                  \* the request being served
    admitted,             \* history: ip -> times check_rate_limit returned True
                          \*          since SETTINGS was last assigned
    issued,               \* history: tokens create_api_token has returned
    revoked,              \* history: tokens revoke_api_token has revoked
    call,                 \* one call of fetch_roproxy_data: its inputs and result
    served,               \* history: number of requests received so far
    resolve,              \* one call of get_user_product: its inputs and result
    thr                   \* the request threads inside check_rate_limit

vars ==
    <<proc, file, SETTINGS, watcher, now, request_timestamps, ban_list, ban_counts,
      api_tokens, whitelisted_ips, req, admitted, issued, revoked, call, served,
      resolve, thr>>

limiterVars == <<request_timestamps, ban_list, ban_counts>>
configVars == <<proc, file, SETTINGS, watcher>>
dbVars == <<api_tokens, whitelisted_ips>>
histVars == <<issued, revoked, call, served>>
extraVars == <<resolve, thr>>

\* ---------------------------------------------------------------- helpers
\* dict.get(key, default)
Get(d, k, default) == IF k \in DOMAIN d THEN d[k] ELSE default

\* d[k] = v
Put(d, k, v) == [x \in DOMAIN d \cup {k} |-> IF x = k THEN v ELSE d[x]]

\* del d[k]
Del(d, k) == [x \in DOMAIN d \ {k} |-> d[x]]

\* ------------------------------------------------------------ load_settings
\* The outcome of load_settings() on the file's content: the settings it
\* returns, SystemExit from exit(1) (missing file, bad JSON, missing key), or
\* the TypeError that `key not in settings` raises on a JSON number.
\* Faulty variant: load_settings without the check of the required keys.
MissingKeyAsValid(content) ==
    IF content.json = "object"
    THEN [kind |-> "settings", settings |-> content.obj]
    ELSE IF content.json = "number" THEN [kind |-> "TypeError"]
    ELSE [kind |-> "SystemExit"]

load_settings(content) ==
    IF content.json = "object"
    THEN IF \A key \in RequiredKeys : key \in DOMAIN content.obj
         THEN [kind |-> "settings", settings |-> content.obj]
         ELSE [kind |-> "SystemExit"]
    ELSE IF content.json = "number" THEN [kind |-> "TypeError"]
    ELSE [kind |-> "SystemExit"]

EmptyLog == [ip \in IPs |-> <<>>]

\* exit(1) raises SystemExit.  In the main thread nothing catches it and the
\* process ends; in the watcher thread `except Exception` does not catch it
\* either, and it ends that thread only.
\* Faulty variant: exit(1) ends the process from any thread (as os._exit does).
Exit1EndsProcess(thread) == "process_exits"

Exit1(thread) == IF thread = "MainThread" THEN "process_exits" ELSE "thread_ends"

\* SETTINGS = load_settings() at import, in the main thread: exit(1) ends the
\* process, and so does the uncaught TypeError.
Startup ==
    /\ proc = "boot"
    /\ LET r == load_settings(file.content)
       IN IF r.kind = "settings"
          THEN /\ SETTINGS' = r.settings
               /\ proc' = "main"
          ELSE /\ proc' = IF r.kind = "SystemExit" /\ Exit1("MainThread") = "thread_ends"
                          THEN "main"
                          ELSE "exited"
               /\ UNCHANGED SETTINGS
    /\ UNCHANGED <<file, watcher, now, limiterVars, dbVars, req, admitted, histVars,
                   extraVars>>

\* The __main__ block: the watcher thread is started if the file exists, and
\* its first os.stat() either records the mtime or ends the thread.
StartWatcher ==
    /\ proc = "main"
    /\ proc' = "serving"
    /\ watcher' = IF file.content.json = "absent"
                  THEN [state |-> "stopped", last_modified |-> 0]
                  ELSE [state |-> "polling", last_modified |-> file.mtime]
    /\ UNCHANGED <<file, SETTINGS, now, limiterVars, dbVars, req, admitted, histVars,
                   extraVars>>

\* One turn of the loop of watch_settings_file.
\*  - os.stat raises FileNotFoundError: break.
\*  - mtime unchanged: nothing.
\*  - changed: SETTINGS = load_settings(); last_modified = current_modified.
\*    exit(1) inside load_settings raises SystemExit, which `except Exception`
\*    does not catch: the thread ends, SETTINGS is not assigned.  A TypeError is
\*    caught and printed, last_modified keeps its value.
WatcherPoll ==
    /\ proc = "serving"
    /\ watcher.state = "polling"
    /\ IF file.content.json = "absent"
       THEN /\ watcher' = [watcher EXCEPT !.state = "stopped"]
            /\ UNCHANGED <<SETTINGS, admitted>>
       ELSE IF file.mtime = watcher.last_modified
       THEN UNCHANGED <<watcher, SETTINGS, admitted>>
       ELSE LET r == load_settings(file.content)
            IN IF r.kind = "settings"
               THEN /\ SETTINGS' = r.settings
                    /\ watcher' = [watcher EXCEPT !.last_modified = file.mtime]
                    /\ admitted' = EmptyLog
               ELSE IF r.kind = "SystemExit"
               THEN /\ watcher' = [watcher EXCEPT !.state = "dead"]
                    /\ UNCHANGED <<SETTINGS, admitted>>
               ELSE UNCHANGED <<watcher, SETTINGS, admitted>>
    /\ proc' = IF /\ file.content.json # "absent"
                  /\ file.mtime # watcher.last_modified
                  /\ load_settings(file.content).kind = "SystemExit"
                  /\ Exit1("watcher") = "process_exits"
               THEN "exited"
               ELSE proc
    /\ UNCHANGED <<file, now, limiterVars, dbVars, req, histVars, extraVars>>

\* The environment rewrites or deletes settings.json.
EditFile(content) ==
    /\ file.mtime < MaxEdits
    /\ content # file.content
    /\ file' = [content |-> content, mtime |-> file.mtime + 1]
    /\ UNCHANGED <<proc, SETTINGS, watcher, now, limiterVars, dbVars, req, admitted,
                   histVars, extraVars>>

\* Time passes.
Tick ==
    /\ now < MaxTime
    /\ now' = now + 1
    /\ UNCHANGED <<configVars, limiterVars, dbVars, req, admitted, histVars, extraVars>>

\* --------------------------------------------------------- check_rate_limit
\* `ip_address in ban_list and ban_list[ip_address] > now`
StillBanned(bl, ip, t) == ip \in DOMAIN bl /\ bl[ip] > t

\* The while loop: popleft() while the oldest timestamp is before `bound`.
\* Faulty variant: an `if` in place of the `while`, which drops one expired
\* timestamp at most.
TrimOne(q, bound) == IF q # <<>> /\ Head(q) < bound THEN Tail(q) ELSE q

RECURSIVE TrimOld(_, _)
TrimOld(q, bound) ==
    IF q # <<>> /\ Head(q) < bound THEN TrimOld(Tail(q), bound) ELSE q

\* `len(request_timestamps[ip_address]) >= SETTINGS["RATE_LIMIT_PER_PERIOD"]`
\* Faulty variant: the threshold compared with > instead of >=.
OverLimitStrict(q, S) == Len(q) > S.RATE_LIMIT_PER_PERIOD

OverLimit(q, S) == Len(q) >= S.RATE_LIMIT_PER_PERIOD

\* Faulty variant: check_rate_limit that returns True without recording the
\* time of the request (the recording left for after the token check).
check_rate_limit_AllowUnrecorded(ip, t, S, rt, bl, bc) ==
    IF StillBanned(bl, ip, t)
    THEN [ok |-> FALSE, why |-> "banned", rt |-> rt, bl |-> bl, bc |-> bc]
    ELSE LET bl1 == IF ip \in DOMAIN bl THEN Del(bl, ip) ELSE bl
             q0 == Get(rt, ip, <<>>)
             q1 == TrimOld(q0, t - S.RATE_LIMIT_PERIOD_SECONDS)
         IN IF OverLimit(q1, S)
            THEN LET c == Get(bc, ip, 0) + 1
                 IN [ok |-> FALSE, why |-> "rate_limited", rt |-> Put(rt, ip, q1),
                     bl |-> IF c >= S.MAX_BAN_COUNT
                            THEN Put(bl1, ip, t + S.BAN_DURATION_SECONDS) ELSE bl1,
                     bc |-> Put(bc, ip, c)]
            ELSE [ok |-> TRUE, why |-> "allowed", rt |-> Put(rt, ip, q1),
                  bl |-> bl1, bc |-> bc]

\* Faulty variant: check_rate_limit that also records the time of a request
\* it refuses for exceeding the rate.
check_rate_limit_RecordsDenied(ip, t, S, rt, bl, bc) ==
    IF StillBanned(bl, ip, t)
    THEN [ok |-> FALSE, why |-> "banned", rt |-> rt, bl |-> bl, bc |-> bc]
    ELSE LET bl1 == IF ip \in DOMAIN bl THEN Del(bl, ip) ELSE bl
             q0 == Get(rt, ip, <<>>)
             q1 == TrimOld(q0, t - S.RATE_LIMIT_PERIOD_SECONDS)
         IN IF OverLimit(q1, S)
            THEN LET c == Get(bc, ip, 0) + 1
                 IN [ok |-> FALSE, why |-> "rate_limited",
                     rt |-> Put(rt, ip, Append(q1, t)),
                     bl |-> IF c >= S.MAX_BAN_COUNT
                            THEN Put(bl1, ip, t + S.BAN_DURATION_SECONDS) ELSE bl1,
                     bc |-> Put(bc, ip, c)]
            ELSE [ok |-> TRUE, why |-> "allowed", rt |-> Put(rt, ip, Append(q1, t)),
                  bl |-> bl1, bc |-> bc]

\* Faulty variant: check_rate_limit with one violation counter for all the
\* addresses.
check_rate_limit_SharedCounter(ip, t, S, rt, bl, bc) ==
    IF StillBanned(bl, ip, t)
    THEN [ok |-> FALSE, why |-> "banned", rt |-> rt, bl |-> bl, bc |-> bc]
    ELSE LET bl1 == IF ip \in DOMAIN bl THEN Del(bl, ip) ELSE bl
             q0 == Get(rt, ip, <<>>)
             q1 == TrimOld(q0, t - S.RATE_LIMIT_PERIOD_SECONDS)
         IN IF OverLimit(q1, S)
            THEN LET c == Get(bc, "all", 0) + 1
                 IN [ok |-> FALSE, why |-> "rate_limited", rt |-> Put(rt, ip, q1),
                     bl |-> IF c >= S.MAX_BAN_COUNT
                            THEN Put(bl1, ip, t + S.BAN_DURATION_SECONDS) ELSE bl1,
                     bc |-> Put(bc, "all", c)]
            ELSE [ok |-> TRUE, why |-> "allowed", rt |-> Put(rt, ip, Append(q1, t)),
                  bl |-> bl1, bc |-> bc]

\* The whole of check_rate_limit(ip) at time t under settings S: the value it
\* returns and the three dictionaries as it leaves them.
check_rate_limit(ip, t, S, rt, bl, bc) ==
    IF StillBanned(bl, ip, t)
    THEN [ok |-> FALSE, why |-> "banned", rt |-> rt, bl |-> bl, bc |-> bc]
    ELSE LET bl1 == IF ip \in DOMAIN bl THEN Del(bl, ip) ELSE bl
             q0 == Get(rt, ip, <<>>)
             q1 == TrimOld(q0, t - S.RATE_LIMIT_PERIOD_SECONDS)
         IN IF OverLimit(q1, S)
            THEN LET c == Get(bc, ip, 0) + 1
                 IN [ok |-> FALSE, why |-> "rate_limited",
                     rt |-> Put(rt, ip, q1),
                     bl |-> IF c >= S.MAX_BAN_COUNT
                            THEN Put(bl1, ip, t + S.BAN_DURATION_SECONDS)
                            ELSE bl1,
                     bc |-> Put(bc, ip, c)]
            ELSE [ok |-> TRUE, why |-> "allowed",
                  rt |-> Put(rt, ip, Append(q1, t)), bl |-> bl1, bc |-> bc]


\* ------------------------------------------------------- fetch_roproxy_data
\* A URL template is a sequence of pieces: literal text or the replacement
\* field "{}".  The arguments are strings.
Field == "{}"
RoutePieces == {"/", Field}
\* Longest template and longest argument list that are enumerated.
MaxTemplateLen == 3
MaxArgs == 3

RECURSIVE SeqsUpTo(_, _)
SeqsUpTo(S, n) ==
    IF n = 0 THEN {<<>>}
    ELSE LET shorter == SeqsUpTo(S, n - 1)
         IN shorter \cup {Append(q, x) : q \in {r \in shorter : Len(r) = n - 1}, x \in S}

Templates == SeqsUpTo(RoutePieces, MaxTemplateLen)
ArgLists == SeqsUpTo({"a", "b"}, MaxArgs)

\* What requests.get / raise_for_status / response.json() do with the call.
UpstreamOutcomes == {"json", "network_error", "bad_status", "bad_json"}

\* url.format(*args) with automatic field numbering: the i-th "{}" takes
\* args[i]; a field with no argument left raises IndexError; arguments that no
\* field uses are ignored.  `used` counts the fields already replaced.
RECURSIVE FormatFrom(_, _, _)
FormatFrom(template, args, used) ==
    IF template = <<>> THEN [error |-> "none", url |-> <<>>]
    ELSE IF Head(template) = Field
    THEN IF used >= Len(args)
         THEN [error |-> "IndexError", url |-> <<>>]
         ELSE LET rest == FormatFrom(Tail(template), args, used + 1)
              IN IF rest.error # "none" THEN rest
                 ELSE [error |-> "none", url |-> <<args[used + 1]>> \o rest.url]
    ELSE LET rest == FormatFrom(Tail(template), args, used)
         IN IF rest.error # "none" THEN rest
            ELSE [error |-> "none", url |-> <<Head(template)>> \o rest.url]

\* Faulty variant: a format that never runs out of arguments.
FormatIgnoringCount(template, args) ==
    [error |-> "none",
     url |-> [i \in 1..Len(template) |->
                 IF template[i] = Field
                 THEN IF Len(args) > 0 THEN args[1] ELSE "None"
                 ELSE template[i]]]

\* Faulty variant: a format that also raises IndexError when arguments are
\* left over.
FormatStrictCount(template, args) ==
    IF Len(args) # Cardinality({i \in 1..Len(template) : template[i] = Field})
    THEN [error |-> "IndexError", url |-> <<>>]
    ELSE FormatFrom(template, args, 0)

Format(template, args) == FormatFrom(template, args, 0)

\* fetch_roproxy_data(url, *args) when the upstream would answer `outcome`:
\* the JSON it returns or the abort() it raises, and whether requests.get ran.
fetch_roproxy_data(template, args, outcome) ==
    LET f == Format(template, args)
    IN IF f.error = "IndexError"
       THEN [kind |-> "abort", status |-> 500, detail |-> "URL formatting error",
             requested |-> FALSE, final_url |-> <<>>]
       ELSE IF outcome = "json"
       THEN [kind |-> "json", status |-> 200, detail |-> "json",
             requested |-> TRUE, final_url |-> f.url]
       ELSE IF outcome = "bad_json"
       THEN [kind |-> "abort", status |-> 500,
             detail |-> "Invalid JSON response from RoProxy",
             requested |-> TRUE, final_url |-> f.url]
       ELSE [kind |-> "abort", status |-> 500,
             detail |-> "Error fetching data from RoProxy",
             requested |-> TRUE, final_url |-> f.url]


\* ------------------------------------------------------------- the request
\* No request is being served.  `arg` is the <token> of the URL of
\* revoke_api_token.
IdleReq ==
    [pc |-> "idle", ip |-> "none", db |-> FALSE, gate |-> "none", token |-> "none",
     trace |-> <<>>, status |-> 0, detail |-> "none", upstream |-> 0, arg |-> "none"]

\* abort(status, description=detail) or `return ..., status`: the response is
\* decided and nothing more of the request runs.
Finish(r, status, detail) ==
    [r EXCEPT !.pc = "respond", !.status = status, !.detail = detail]

\* SETTINGS.get("WHITELISTED_IPS", [])
ConfigWhitelist(S) ==
    IF "WHITELISTED_IPS" \in DOMAIN S THEN S.WHITELISTED_IPS ELSE {}

\* is_whitelisted(ip), once get_db() has returned a connection.
\* Faulty variant: the whitelist of the settings file is not consulted.
OnlyDbWhitelist(ip, S, wl) == ip \in wl

is_whitelisted(ip, S, wl) == ip \in ConfigWhitelist(S) \/ ip \in wl

\* What before_request does with the value of check_rate_limit.
\* Faulty variant: before_request ignores the value of check_rate_limit.
NeverAbort429(r, ok) ==
    [r EXCEPT !.pc = "view"]

AdmissionGate(r, ok) ==
    IF ok THEN [r EXCEPT !.pc = "view"]
    ELSE Finish(r, 429, "Too Many Requests")

\* before_request for a request from `ip`.  is_whitelisted calls get_db(),
\* which opens the request's connection (g.db); when the connection fails
\* get_db aborts with 500 (the `return None` after abort() is never reached).
\* req.gate keeps what the gate found: the address whitelisted, or the value
\* of check_rate_limit.
BeforeRequest(ip, dbUp) ==
    /\ proc = "serving"
    /\ req.pc = "idle"
    /\ served < MaxRequests
    /\ served' = served + 1
    /\ LET r0 == [IdleReq EXCEPT !.ip = ip, !.trace = <<"before_request">>]
       IN IF ~dbUp
          THEN /\ req' = Finish(r0, 500, "Failed to connect to the database.")
               /\ UNCHANGED <<limiterVars, admitted>>
          ELSE IF is_whitelisted(ip, SETTINGS, whitelisted_ips)
          THEN /\ req' = [r0 EXCEPT !.pc = "view", !.db = TRUE,
                                    !.gate = "whitelisted"]
               /\ UNCHANGED <<limiterVars, admitted>>
          ELSE LET c == check_rate_limit(ip, now, SETTINGS, request_timestamps,
                                         ban_list, ban_counts)
               IN /\ request_timestamps' = c.rt
                  /\ ban_list' = c.bl
                  /\ ban_counts' = c.bc
                  /\ admitted' = IF c.ok
                                 THEN [admitted EXCEPT ![ip] = Append(@, now)]
                                 ELSE admitted
                  /\ req' = AdmissionGate(
                                [r0 EXCEPT !.db = TRUE,
                                           !.gate = IF c.ok THEN "allowed" ELSE "denied"],
                                c.ok)
    /\ UNCHANGED <<configVars, now, dbVars, issued, revoked, call, extraVars>>

\* "SELECT * FROM api_tokens WHERE token = %s AND is_valid = TRUE" finds a row.
\* Faulty variant: the query without "AND is_valid = TRUE".
AnyRowMatches(tbl, token) == token \in DOMAIN tbl

is_valid_api_token(tbl, token) == token \in DOMAIN tbl /\ tbl[token].is_valid

\* The wrapper of require_api_token: 401 without the header, 403 when the
\* token is not valid; a valid token has its last_used set and the view runs.
\* Faulty variant: the wrapper checks only that the header is there.
HeaderOnly(header, valid) ==
    IF header = NoToken THEN "401" ELSE "pass"

TokenGate(header, valid) ==
    IF header = NoToken THEN "401"
    ELSE IF ~valid THEN "403"
    ELSE "pass"

RequireApiToken(header) ==
    /\ req.pc = "view"
    /\ LET r0 == [req EXCEPT !.token = header,
                             !.trace = Append(@, "require_api_token")]
           valid == header # NoToken /\ is_valid_api_token(api_tokens, header)
           gate == TokenGate(header, valid)
       IN /\ req' = IF gate = "401" THEN Finish(r0, 401, "API token required.")
                    ELSE IF gate = "403" THEN Finish(r0, 403, "Invalid API token.")
                    ELSE [r0 EXCEPT !.pc = "handler"]
          /\ api_tokens' = IF valid
                           THEN [api_tokens EXCEPT ![header].last_used = "CURRENT_TIMESTAMP"]
                           ELSE api_tokens
    /\ UNCHANGED <<configVars, now, limiterVars, whitelisted_ips, admitted, histVars,
                   extraVars>>


\* ---------------------------------------------------------- view functions
\* The templates of the routes: one field (the /users, /catalog, /friends
\* routes) or two (get_user_asset_favorite), each called with as many
\* arguments as it has fields.
RouteCalls ==
    {[template |-> <<"/", Field>>, args |-> <<"a">>],
     [template |-> <<"/", Field>>, args |-> <<"b">>],
     [template |-> <<Field, "/", Field>>, args |-> <<"a", "b">>]}

\* A data route: return jsonify(fetch_roproxy_data(template, *args)).
FetchRoute(rc, outcome) ==
    /\ req.pc = "handler"
    /\ LET f == fetch_roproxy_data(rc.template, rc.args, outcome)
           r0 == [req EXCEPT !.trace = Append(@, "view"),
                             !.upstream = IF f.requested THEN @ + 1 ELSE @]
       IN req' = Finish(r0, f.status, f.detail)
    /\ UNCHANGED <<configVars, now, limiterVars, dbVars, admitted, histVars, extraVars>>

\* list_api_tokens and get_whitelist: a SELECT and a 200.
ReadRoute ==
    /\ req.pc = "handler"
    /\ req' = Finish([req EXCEPT !.trace = Append(@, "view")], 200, "json")
    /\ UNCHANGED <<configVars, now, limiterVars, dbVars, admitted, histVars, extraVars>>

\* ------------------------------------------------------- get_user_product
\* Product names as they arrive in the URL, and what the paste can hold: an
\* empty object, or an object of products, each with its owners' names.
ProductNames == {"Sword", "Sh%69eld", "Axe"}
EmptyData == <<>>
OwnersData == [p \in {"Sword", "Shield"} |-> IF p = "Sword" THEN {"ALICE"} ELSE {"bob"}]

\* What requests.get(SETTINGS["PASTEBIN_URL"]) brings back.
PastebinResponses ==
    {[kind |-> "json", data |-> EmptyData], [kind |-> "json", data |-> OwnersData],
     [kind |-> "network_error"], [kind |-> "bad_status"], [kind |-> "bad_json"]}

\* The "name" of the user object RoProxy returns; NoName when it has none.
NoName == "<no name>"
UserNames == {"Alice", "Bob", NoName}

\* urllib.parse.unquote
unquote(s) == IF s = "Sh%69eld" THEN "Shield" ELSE s

\* str.lower
lower(s) ==
    CASE s = "Alice" -> "alice"
      [] s = "ALICE" -> "alice"
      [] s = "Bob" -> "bob"
      [] OTHER -> s

\* fetch_data_from_pastebin(): the object of the paste, or {} when
\* PASTEBIN_URL is not set, the request fails or the body is not JSON.
fetch_data_from_pastebin(S, pastebin) ==
    IF "PASTEBIN_URL" \notin DOMAIN S THEN EmptyData
    ELSE IF pastebin.kind = "json" THEN pastebin.data
    ELSE EmptyData

\* What get_user_product answers: the status and description, the DATA it
\* fetched, and the number of requests it made to RoProxy.
ProductAnswer(status, detail, DATA, upstream) ==
    [status |-> status, detail |-> detail, DATA |-> DATA, upstream |-> upstream]

\* Faulty variant: get_user_product that resolves the user name before it
\* looks the product up.
get_user_product_IdentityFirst(S, roblox_id, product_name, pastebin, outcome, name) ==
    LET decoded_product_name == unquote(product_name)
        DATA == fetch_data_from_pastebin(S, pastebin)
        user_data == fetch_roproxy_data(<<"/", Field>>, <<roblox_id>>, outcome)
        n == IF user_data.requested THEN 1 ELSE 0
    IN IF user_data.kind = "abort"
       THEN ProductAnswer(user_data.status, user_data.detail, DATA, n)
       ELSE IF name = NoName
       THEN ProductAnswer(404, "Could not retrieve username", DATA, n)
       ELSE IF DATA = EmptyData
       THEN ProductAnswer(500, "Pastebin data is unavailable.", DATA, n)
       ELSE IF decoded_product_name \notin DOMAIN DATA
       THEN ProductAnswer(404, "Product not found", DATA, n)
       ELSE ProductAnswer(200,
                IF \E user \in DATA[decoded_product_name] : lower(user) = lower(name)
                THEN "isOwner: true" ELSE "isOwner: false", DATA, n)

\* get_user_product(roblox_id, product_name), given what the paste and
\* RoProxy answer.
get_user_product(S, roblox_id, product_name, pastebin, outcome, name) ==
    LET decoded_product_name == unquote(product_name)
        DATA == fetch_data_from_pastebin(S, pastebin)
    IN IF DATA = EmptyData
       THEN ProductAnswer(500, "Pastebin data is unavailable.", DATA, 0)
       ELSE IF decoded_product_name \notin DOMAIN DATA
       THEN ProductAnswer(404, "Product not found", DATA, 0)
       ELSE LET user_data == fetch_roproxy_data(<<"/", Field>>, <<roblox_id>>, outcome)
                n == IF user_data.requested THEN 1 ELSE 0
            IN IF user_data.kind = "abort"
               THEN ProductAnswer(user_data.status, user_data.detail, DATA, n)
               ELSE IF name = NoName
               THEN ProductAnswer(404, "Could not retrieve username", DATA, n)
               ELSE ProductAnswer(200,
                        IF \E user \in DATA[decoded_product_name] :
                               lower(user) = lower(name)
                        THEN "isOwner: true" ELSE "isOwner: false", DATA, n)

\* No call of get_user_product has been made.
NoResolve ==
    [called |-> FALSE, product |-> "none", outcome |-> "none", name |-> "none",
     answer |-> ProductAnswer(0, "none", EmptyData, 0)]

\* The route /users/v1/<roblox_id>/<product_name>.
GetUserProduct(roblox_id, product_name, pastebin, outcome, name) ==
    /\ req.pc = "handler"
    /\ LET a == get_user_product(SETTINGS, roblox_id, product_name, pastebin,
                                 outcome, name)
           r0 == [req EXCEPT !.trace = Append(@, "view"), !.upstream = @ + a.upstream]
       IN /\ req' = Finish(r0, a.status, a.detail)
          /\ resolve' = [called |-> TRUE, product |-> unquote(product_name),
                         outcome |-> outcome, name |-> name, answer |-> a]
    /\ UNCHANGED <<configVars, now, limiterVars, dbVars, admitted, histVars, thr>>

\* create_api_token.  `body` says what the JSON body lacks; new_token is the
\* value generate_api_token() draws.  token is UNIQUE: inserting one that is
\* in the table raises IntegrityError.
CreateApiToken(body, new_token) ==
    /\ req.pc = "handler"
    /\ LET r0 == [req EXCEPT !.trace = Append(@, "view")]
       IN IF body = "no_user_id"
          THEN /\ req' = Finish(r0, 400, "user_id is required")
               /\ UNCHANGED <<api_tokens, issued>>
          ELSE IF body = "no_description"
          THEN /\ req' = Finish(r0, 400, "description is required")
               /\ UNCHANGED <<api_tokens, issued>>
          ELSE IF new_token \in DOMAIN api_tokens
          THEN /\ req' = Finish(r0, 500, "Token collision.  Please try again.")
               /\ UNCHANGED <<api_tokens, issued>>
          ELSE /\ api_tokens' = Put(api_tokens, new_token,
                                    [is_valid |-> TRUE, last_used |-> "NULL"])
               /\ issued' = issued \cup {new_token}
               /\ req' = Finish(r0, 201, "API token created successfully.")
    /\ UNCHANGED <<configVars, now, limiterVars, whitelisted_ips, admitted, revoked,
                   call, served, extraVars>>

\* "UPDATE api_tokens SET is_valid = FALSE WHERE token = %s": the rows it
\* changes.  rowcount counts changed rows, so a row that is already invalid
\* counts for nothing.
\* Faulty variant: rowcount counts the rows the WHERE clause matches.
RevokeUpdateMatchedRows(tbl, token) ==
    IF token \in DOMAIN tbl
    THEN [rowcount |-> 1, tbl |-> [tbl EXCEPT ![token].is_valid = FALSE]]
    ELSE [rowcount |-> 0, tbl |-> tbl]

RevokeUpdate(tbl, token) ==
    IF token \in DOMAIN tbl /\ tbl[token].is_valid
    THEN [rowcount |-> 1, tbl |-> [tbl EXCEPT ![token].is_valid = FALSE]]
    ELSE [rowcount |-> 0, tbl |-> tbl]

\* revoke_api_token(token)
RevokeApiToken(token) ==
    /\ req.pc = "handler"
    /\ LET r0 == [req EXCEPT !.trace = Append(@, "view"), !.arg = token]
           u == RevokeUpdate(api_tokens, token)
       IN /\ api_tokens' = u.tbl
          /\ IF u.rowcount = 0
             THEN /\ req' = Finish(r0, 404, "Token not found or already invalid.")
                  /\ UNCHANGED revoked
             ELSE /\ req' = Finish(r0, 200, "API token revoked successfully.")
                  /\ revoked' = revoked \cup {token}
    /\ UNCHANGED <<configVars, now, limiterVars, whitelisted_ips, admitted, issued,
                   call, served, extraVars>>

\* add_to_whitelist: body.ip is the address, or the body has no "ip".
AddToWhitelist(ip) ==
    /\ req.pc = "handler"
    /\ LET r0 == [req EXCEPT !.trace = Append(@, "view")]
       IN IF ip = "none"
          THEN /\ req' = Finish(r0, 400, "Missing IP address in request body.")
               /\ UNCHANGED whitelisted_ips
          ELSE IF ip \in whitelisted_ips
          THEN /\ req' = Finish(r0, 409, "already whitelisted")
               /\ UNCHANGED whitelisted_ips
          ELSE /\ whitelisted_ips' = whitelisted_ips \cup {ip}
               /\ req' = Finish(r0, 201, "added to whitelist")
    /\ UNCHANGED <<configVars, now, limiterVars, api_tokens, admitted, histVars, extraVars>>

\* remove_from_whitelist(ip_address)
RemoveFromWhitelist(ip) ==
    /\ req.pc = "handler"
    /\ LET r0 == [req EXCEPT !.trace = Append(@, "view")]
       IN /\ whitelisted_ips' = whitelisted_ips \ {ip}
          /\ req' = IF ip \in whitelisted_ips
                    THEN Finish(r0, 200, "removed from whitelist")
                    ELSE Finish(r0, 404, "IP address not found in whitelist.")
    /\ UNCHANGED <<configVars, now, limiterVars, api_tokens, admitted, histVars, extraVars>>

\* The error handler or jsonify sends the response; the request is over.
Respond ==
    /\ req.pc = "respond"
    /\ req' = IdleReq
    /\ UNCHANGED <<configVars, now, limiterVars, dbVars, admitted, histVars, extraVars>>

\* ------------------------------------------- check_rate_limit, by statement
\* The development server serves each request in a thread of its own, and
\* check_rate_limit takes no lock: request threads interleave between its
\* statements.  A thread keeps its position in check_rate_limit (the line it
\* is about to run), the address of its request, its local `now`, and two
\* records of what it has read: `slots`, the room it found at line 161
\* (RATE_LIMIT_PER_PERIOD less the length of the deque), and `seen`, the values
\* of the global SETTINGS its reads of SETTINGS[...] have met.
Threads == {"T1", "T2"}

IdleThread ==
    [pc |-> "idle", ip |-> "none", now |-> 0, slots |-> 0, seen |-> {},
     result |-> "none"]

\* What a step of a request thread leaves alone, besides the limiter.
threadFrame == <<configVars, now, dbVars, req, issued, revoked, call, resolve>>

\* The thread moves to line `pc`.
Goto(t, pc) == thr' = [thr EXCEPT ![t].pc = pc]

\* check_rate_limit ends in thread t: it returns, or an exception leaves it.
Return(t, result) == thr' = [thr EXCEPT ![t] = [IdleThread EXCEPT !.result = result]]

\* before_request up to the call of check_rate_limit.
T_Enter(t, ip) ==
    /\ proc = "serving"
    /\ thr[t].pc = "idle"
    /\ served < MaxCalls
    /\ served' = served + 1
    /\ IF is_whitelisted(ip, SETTINGS, whitelisted_ips)
       THEN Return(t, "whitelisted")
       ELSE thr' = [thr EXCEPT ![t] = [IdleThread EXCEPT !.pc = "L147", !.ip = ip]]
    /\ UNCHANGED <<threadFrame, limiterVars, admitted>>

\* now = time.time()
T_L147(t) ==
    /\ thr[t].pc = "L147"
    /\ thr' = [thr EXCEPT ![t].pc = "L149", ![t].now = now]
    /\ UNCHANGED <<threadFrame, limiterVars, admitted, served>>

\* if ip_address in ban_list:
T_L149(t) ==
    /\ thr[t].pc = "L149"
    /\ Goto(t, IF thr[t].ip \in DOMAIN ban_list THEN "L150" ELSE "L155")
    /\ UNCHANGED <<threadFrame, limiterVars, admitted, served>>

\* if ban_list[ip_address] > now: return False.  Another thread may have
\* deleted the entry since line 149: ban_list[ip_address] raises KeyError.
T_L150(t) ==
    /\ thr[t].pc = "L150"
    /\ IF thr[t].ip \notin DOMAIN ban_list THEN Return(t, "KeyError")
       ELSE IF ban_list[thr[t].ip] > thr[t].now THEN Return(t, "banned")
       ELSE Goto(t, "L153")
    /\ UNCHANGED <<threadFrame, limiterVars, admitted, served>>

\* del ban_list[ip_address]
T_L153(t) ==
    /\ thr[t].pc = "L153"
    /\ IF thr[t].ip \notin DOMAIN ban_list
       THEN Return(t, "KeyError") /\ UNCHANGED ban_list
       ELSE Goto(t, "L155") /\ ban_list' = Del(ban_list, thr[t].ip)
    /\ UNCHANGED <<threadFrame, request_timestamps, ban_counts, admitted, served>>

\* if ip_address not in request_timestamps:
T_L155(t) ==
    /\ thr[t].pc = "L155"
    /\ Goto(t, IF thr[t].ip \notin DOMAIN request_timestamps THEN "L156" ELSE "L158")
    /\ UNCHANGED <<threadFrame, limiterVars, admitted, served>>

\* request_timestamps[ip_address] = deque()
T_L156(t) ==
    /\ thr[t].pc = "L156"
    /\ request_timestamps' = Put(request_timestamps, thr[t].ip, <<>>)
    /\ Goto(t, "L158")
    /\ UNCHANGED <<threadFrame, ban_list, ban_counts, admitted, served>>

\* while request_timestamps[ip_address] and
\*       request_timestamps[ip_address][0] < now - SETTINGS["RATE_LIMIT_PERIOD_SECONDS"]:
\* SETTINGS is read only when the deque is not empty.
T_L158(t) ==
    /\ thr[t].pc = "L158"
    /\ LET q == request_timestamps[thr[t].ip]
       IN IF q = <<>>
          THEN Goto(t, "L161")
          ELSE thr' = [thr EXCEPT
                   ![t].seen = @ \cup {SETTINGS},
                   ![t].pc = IF Head(q) < thr[t].now - SETTINGS.RATE_LIMIT_PERIOD_SECONDS
                             THEN "L159" ELSE "L161"]
    /\ UNCHANGED <<threadFrame, limiterVars, admitted, served>>

\* request_timestamps[ip_address].popleft(): IndexError when another thread
\* has emptied the deque since line 158.
T_L159(t) ==
    /\ thr[t].pc = "L159"
    /\ LET q == request_timestamps[thr[t].ip]
       IN IF q = <<>>
          THEN Return(t, "IndexError") /\ UNCHANGED request_timestamps
          ELSE /\ Goto(t, "L158")
               /\ request_timestamps' = Put(request_timestamps, thr[t].ip, Tail(q))
    /\ UNCHANGED <<threadFrame, ban_list, ban_counts, admitted, served>>

\* if len(request_timestamps[ip_address]) >= SETTINGS["RATE_LIMIT_PER_PERIOD"]:
T_L161(t) ==
    /\ thr[t].pc = "L161"
    /\ LET q == request_timestamps[thr[t].ip]
       IN thr' = [thr EXCEPT
              ![t].seen = @ \cup {SETTINGS},
              ![t].slots = SETTINGS.RATE_LIMIT_PER_PERIOD - Len(q),
              ![t].pc = IF OverLimit(q, SETTINGS) THEN "L162" ELSE "L167"]
    /\ UNCHANGED <<threadFrame, limiterVars, admitted, served>>

\* ban_counts[ip_address] = ban_counts.get(ip_address, 0) + 1
T_L162(t) ==
    /\ thr[t].pc = "L162"
    /\ ban_counts' = Put(ban_counts, thr[t].ip, Get(ban_counts, thr[t].ip, 0) + 1)
    /\ Goto(t, "L163")
    /\ UNCHANGED <<threadFrame, request_timestamps, ban_list, admitted, served>>

\* if ban_counts[ip_address] >= SETTINGS["MAX_BAN_COUNT"]:
T_L163(t) ==
    /\ thr[t].pc = "L163"
    /\ thr' = [thr EXCEPT
           ![t].seen = @ \cup {SETTINGS},
           ![t].pc = IF ban_counts[thr[t].ip] >= SETTINGS.MAX_BAN_COUNT
                     THEN "L164" ELSE "L165"]
    /\ UNCHANGED <<threadFrame, limiterVars, admitted, served>>

\* ban_list[ip_address] = now + SETTINGS["BAN_DURATION_SECONDS"]
T_L164(t) ==
    /\ thr[t].pc = "L164"
    /\ ban_list' = Put(ban_list, thr[t].ip, thr[t].now + SETTINGS.BAN_DURATION_SECONDS)
    /\ thr' = [thr EXCEPT ![t].seen = @ \cup {SETTINGS}, ![t].pc = "L165"]
    /\ UNCHANGED <<threadFrame, request_timestamps, ban_counts, admitted, served>>

\* return False
T_L165(t) ==
    /\ thr[t].pc = "L165"
    /\ Return(t, "rate_limited")
    /\ UNCHANGED <<threadFrame, limiterVars, admitted, served>>

\* request_timestamps[ip_address].append(now)
T_L167(t) ==
    /\ thr[t].pc = "L167"
    /\ request_timestamps' =
           Put(request_timestamps, thr[t].ip,
               Append(request_timestamps[thr[t].ip], thr[t].now))
    /\ Goto(t, "L168")
    /\ UNCHANGED <<threadFrame, ban_list, ban_counts, admitted, served>>

\* return True
T_L168(t) ==
    /\ thr[t].pc = "L168"
    /\ admitted' = [admitted EXCEPT ![thr[t].ip] = Append(@, thr[t].now)]
    /\ Return(t, "allowed")
    /\ UNCHANGED <<threadFrame, limiterVars, served>>

\* One statement of check_rate_limit in thread t.
ThreadStep(t) ==
    \/ T_L147(t) \/ T_L149(t) \/ T_L150(t) \/ T_L153(t) \/ T_L155(t)
    \/ T_L156(t) \/ T_L158(t) \/ T_L159(t) \/ T_L161(t) \/ T_L162(t)
    \/ T_L163(t) \/ T_L164(t) \/ T_L165(t) \/ T_L167(t) \/ T_L168(t)

\* ------------------------------------------------------- the specification
NoCall ==
    [template |-> <<>>, args |-> <<>>, outcome |-> "json", result |-> [kind |-> "none"]]

\* The process before `SETTINGS = load_settings()` runs.  settings.json holds
\* anything; the database holds the token the operator seeded (the routes
\* that create tokens need one) and an empty whitelist.
Init ==
    /\ proc = "boot"
    /\ file \in {[content |-> c, mtime |-> 0] : c \in FileContents}
    /\ SETTINGS = NoSettings
    /\ watcher = [state |-> "notstarted", last_modified |-> 0]
    /\ now = 0
    /\ request_timestamps = <<>>
    /\ ban_list = <<>>
    /\ ban_counts = <<>>
    /\ api_tokens = [t \in SeededTokens |-> [is_valid |-> TRUE, last_used |-> "NULL"]]
    /\ whitelisted_ips = {}
    /\ req = IdleReq
    /\ admitted = EmptyLog
    /\ issued = {}
    /\ revoked = {}
    /\ call = NoCall
    /\ served = 0
    /\ resolve = NoResolve
    /\ thr = [t \in Threads |-> IdleThread]

Next ==
    \/ Startup
    \/ StartWatcher
    \/ WatcherPoll
    \/ \E c \in FileContents : EditFile(c)
    \/ Tick
    \/ \E ip \in IPs, dbUp \in BOOLEAN : BeforeRequest(ip, dbUp)
    \/ \E h \in Tokens \cup {NoToken} : RequireApiToken(h)
    \/ \E rc \in RouteCalls, o \in UpstreamOutcomes : FetchRoute(rc, o)
    \/ ReadRoute
    \/ \E b \in {"ok", "no_user_id", "no_description"}, t \in Tokens :
          CreateApiToken(b, t)
    \/ \E t \in Tokens : RevokeApiToken(t)
    \/ \E ip \in IPs \cup {"none"} : AddToWhitelist(ip)
    \/ \E ip \in IPs : RemoveFromWhitelist(ip)
    \/ \E id \in {"a", "b"}, p \in ProductNames, pb \in PastebinResponses,
          o \in UpstreamOutcomes, n \in UserNames : GetUserProduct(id, p, pb, o, n)
    \/ Respond
    \/ \E t \in Threads, ip \in IPs : T_Enter(t, ip)
    \/ \E t \in Threads : ThreadStep(t)

Spec == Init /\ [][Next]_vars

\* The specifications below are Spec with part of its environment held
\* still: each takes its steps from Next, so each of its behaviours is a
\* behaviour of Spec.

\* The admission gate: two clients, the clock, either complete settings file
\* (which stays as it is), and the whitelist routes called with the seeded
\* token.
InitGate ==
    /\ Init
    /\ file.content \in {[json |-> "object", obj |-> CfgA],
                         [json |-> "object", obj |-> CfgB]}

NextGate ==
    \/ Startup
    \/ StartWatcher
    \/ Tick
    \/ \E ip \in IPs, dbUp \in BOOLEAN : BeforeRequest(ip, dbUp)
    \/ \E h \in {NoToken, "t1"} : RequireApiToken(h)
    \/ \E ip \in IPs : AddToWhitelist(ip)
    \/ \E ip \in IPs : RemoveFromWhitelist(ip)
    \/ Respond

SpecGate == InitGate /\ [][NextGate]_vars

\* The token table and the routes behind the decorator: the settings file is
\* CfgB and stays as it is, the whitelist table stays empty.
InitTokens ==
    /\ Init
    /\ file.content = [json |-> "object", obj |-> CfgB]

NextTokens ==
    \/ Startup
    \/ StartWatcher
    \/ Tick
    \/ \E ip \in IPs, dbUp \in BOOLEAN : BeforeRequest(ip, dbUp)
    \/ \E h \in Tokens \cup {NoToken} : RequireApiToken(h)
    \/ \E rc \in RouteCalls, o \in UpstreamOutcomes : FetchRoute(rc, o)
    \/ ReadRoute
    \/ \E b \in {"ok", "no_user_id", "no_description"}, t \in Tokens :
          CreateApiToken(b, t)
    \/ \E t \in Tokens : RevokeApiToken(t)
    \/ Respond

SpecTokens == InitTokens /\ [][NextTokens]_vars

\* The settings loader and the watcher: settings.json holds anything at start
\* and is rewritten or deleted; no request arrives.
NextConfig ==
    \/ Startup
    \/ StartWatcher
    \/ WatcherPoll
    \/ \E c \in FileContents : EditFile(c)
    \/ Tick

SpecConfig == Init /\ [][NextConfig]_vars

\* fetch_roproxy_data on its own: any template, any arguments, any upstream.
InitForward ==
    /\ Init
    /\ file.content = [json |-> "absent"]

ForwardCall(template, args, outcome) ==
    /\ call = NoCall
    /\ call' = [template |-> template, args |-> args, outcome |-> outcome,
                result |-> fetch_roproxy_data(template, args, outcome)]
    /\ UNCHANGED <<configVars, now, limiterVars, dbVars, req, admitted, issued,
                   revoked, served, extraVars>>

NextForward ==
    \E template \in Templates, args \in ArgLists, o \in UpstreamOutcomes :
        ForwardCall(template, args, o)

SpecForward == InitForward /\ [][NextForward]_vars

\* The route get_user_product behind the gates, with and without PASTEBIN_URL
\* in the settings.
NextResolve ==
    \/ Startup
    \/ StartWatcher
    \/ \E ip \in IPs : BeforeRequest(ip, TRUE)
    \/ \E h \in {NoToken, "t1"} : RequireApiToken(h)
    \/ \E id \in {"a", "b"}, p \in ProductNames, pb \in PastebinResponses,
          o \in UpstreamOutcomes, n \in UserNames : GetUserProduct(id, p, pb, o, n)
    \/ Respond

SpecResolve == InitGate /\ [][NextResolve]_vars

\* Two request threads inside check_rate_limit, the settings fixed.
NextThreads ==
    \/ Startup
    \/ StartWatcher
    \/ Tick
    \/ \E t \in Threads, ip \in IPs : T_Enter(t, ip)
    \/ \E t \in Threads : ThreadStep(t)

SpecThreads == InitGate /\ [][NextThreads]_vars

\* One request thread inside check_rate_limit while the watcher reloads
\* settings.json, which is rewritten with complete settings.
NextReload ==
    \/ Startup
    \/ StartWatcher
    \/ WatcherPoll
    \/ \E c \in {[json |-> "object", obj |-> CfgA], [json |-> "object", obj |-> CfgB]} :
          EditFile(c)
    \/ Tick
    \/ \E ip \in IPs : T_Enter("T1", ip)
    \/ ThreadStep("T1")

SpecReload == InitGate /\ [][NextReload]_vars


\* ------------------------------------------------------------- properties
\* A request from ip enters before_request in this step.
Arrives(ip) == req.pc = "idle" /\ req'.pc # "idle" /\ req'.ip = ip

\* The steps of the request so far.
Ran(stage) == \E i \in 1..Len(req.trace) : req.trace[i] = stage

\* Number of admissions of the log that fall in the closed span [lo, hi].
AdmittedIn(log, lo, hi) ==
    Cardinality({i \in 1..Len(log) : lo <= log[i] /\ log[i] <= hi})

\* C1: while SETTINGS stays the same, every span of RATE_LIMIT_PERIOD_SECONDS
\* holds at most RATE_LIMIT_PER_PERIOD calls of check_rate_limit that returned
\* True for one address.
SlidingWindowInvariant ==
    proc = "serving" =>
        \A ip \in IPs : \A a \in 0..now :
            AdmittedIn(admitted[ip], a, a + SETTINGS.RATE_LIMIT_PERIOD_SECONDS)
                <= SETTINGS.RATE_LIMIT_PER_PERIOD

\* C1 witness: a request is refused with the window full, after an earlier
\* admission of the same address has left the window.
SlidingWindowWitness ==
    /\ req.pc = "respond"
    /\ req.gate = "denied"
    /\ req.ip = "ip1"
    /\ "ip1" \notin DOMAIN ban_list
    /\ Len(admitted["ip1"]) > SETTINGS.RATE_LIMIT_PER_PERIOD
    /\ AdmittedIn(admitted["ip1"], now - SETTINGS.RATE_LIMIT_PERIOD_SECONDS, now)
          = SETTINGS.RATE_LIMIT_PER_PERIOD

\* C2: once the ban of an address has run its BAN_DURATION_SECONDS (now has
\* reached ban-until), the strike counter of the address is zero.
BanEndsWithZeroStrikes ==
    \A ip \in DOMAIN ban_list :
        now >= ban_list[ip] => Get(ban_counts, ip, 0) = 0

\* C3: the strike counter of an address is reset in the step that bans it, so
\* it is zero for as long as the ban is in force.
StrikesResetByBan ==
    \A ip \in DOMAIN ban_list :
        ban_list[ip] > now => Get(ban_counts, ip, 0) = 0

Rejected(content) ==
    \/ content.json # "object"
    \/ \E key \in RequiredKeys : key \notin DOMAIN content.obj

LoadNeverExits == proc # "exited"

\* C6 as amended: the process ends only at the first load, before any
\* settings are in force and before the watcher exists; a bad file met by the
\* watcher leaves the process serving.
ExitOnlyAtFirstLoad ==
    proc = "exited" => (SETTINGS = NoSettings /\ watcher.state = "notstarted")

\* C6 witness: the watcher has stopped on a malformed or deleted file and the
\* process still serves with its earlier settings.
BadReloadSurvivedWitness ==
    /\ proc = "serving"
    /\ watcher.state \in {"dead", "stopped"}
    /\ file.content.json \in {"malformed", "absent"}
    /\ SETTINGS \in {CfgA, CfgB}

\* C7: a token create_api_token returned is valid until revoke_api_token has
\* revoked it, a revoked token is never valid again, and a token that was
\* never put in the table is not valid.
TokenLifecycle ==
    \A t \in Tokens :
        /\ t \in issued \ revoked => is_valid_api_token(api_tokens, t)
        /\ t \in revoked => ~is_valid_api_token(api_tokens, t)
        /\ t \notin issued \cup SeededTokens => ~is_valid_api_token(api_tokens, t)

\* C7 witness: a token was created, then revoked, and a later request that
\* carried it got 403.
TokenLifecycleWitness ==
    \E t \in issued \cap revoked :
        /\ req.token = t
        /\ req.status = 403

\* C8: the wrapper lets a request through to the view only with a token that
\* is valid at that moment; without the header the request ends 401, with a
\* token that is not valid 403, and then neither the view nor an upstream
\* call has run.
TokenGateGuardsViews ==
    /\ [][(req.pc = "view" /\ req'.pc # "view") =>
            /\ req'.token = NoToken => (req'.pc = "respond" /\ req'.status = 401)
            /\ (req'.token # NoToken /\ ~is_valid_api_token(api_tokens, req'.token))
                  => (req'.pc = "respond" /\ req'.status = 403)
            /\ req'.pc = "handler" => is_valid_api_token(api_tokens, req'.token)]_vars
    /\ [](req.status \in {401, 403} => (~Ran("view") /\ req.upstream = 0))
    /\ [](Ran("view") => (Ran("require_api_token") /\ req.token \in DOMAIN api_tokens))

\* C8 witness: a request with a token that is not in the table has ended 403.
TokenGateWitness ==
    /\ req.pc = "respond"
    /\ req.status = 403
    /\ req.token \in Tokens \ DOMAIN api_tokens

\* C9: before_request runs first; the wrapper runs second and the view third,
\* and only for a request the gate let through; a request the gate refused
\* ends 429 and nothing else of it runs.
GateOrdering ==
    /\ req.trace # <<>> => req.trace[1] = "before_request"
    /\ \A i \in 1..Len(req.trace) :
          /\ req.trace[i] = "require_api_token" =>
                (i = 2 /\ req.gate \in {"whitelisted", "allowed"})
          /\ req.trace[i] = "view" => (i = 3 /\ req.trace[2] = "require_api_token")
    /\ req.upstream > 0 => Ran("view")
    /\ req.gate = "denied" =>
          /\ req.pc = "respond" /\ req.status = 429
          /\ req.trace = <<"before_request">>
          /\ req.token = "none"
          /\ req.upstream = 0

\* C9 witness: the gate has refused a request after letting earlier ones
\* through to the views.
GateOrderingWitness ==
    /\ req.gate = "denied"
    /\ req.status = 429
    /\ served >= 3
    /\ issued # {}

\* Number of replacement fields of a template.
NumFields(template) == Cardinality({i \in 1..Len(template) : template[i] = Field})

\* C10: fetch_roproxy_data with fewer arguments than the template has fields
\* aborts with 500 "URL formatting error" and sends nothing upstream.
TooFewArgsIsFormattingError ==
    (call.result.kind # "none" /\ Len(call.args) < NumFields(call.template)) =>
        /\ call.result.kind = "abort"
        /\ call.result.status = 500
        /\ call.result.detail = "URL formatting error"
        /\ ~call.result.requested

\* C10 witness: a template with two fields was called with one argument.
TooFewArgsWitness ==
    /\ call.result.kind = "abort"
    /\ NumFields(call.template) = 2
    /\ Len(call.args) = 1


\* C11 (as stated): whenever the requested product is absent from the DATA
\* fetched for the call, the empty DATA included, get_user_product answers 404
\* and makes no request to RoProxy.
AbsentProductIs404 ==
    (resolve.called /\ resolve.product \notin DOMAIN resolve.answer.DATA)
        => (resolve.answer.status = 404 /\ resolve.answer.upstream = 0)

\* C11 (amended): when the DATA fetched for the call is not empty and lacks the
\* requested product, get_user_product answers 404 without a request to
\* RoProxy, whatever RoProxy would have answered; when the DATA is empty it
\* answers 500 "Pastebin data is unavailable.", again without a request to
\* RoProxy.
AbsentProductIs404UnlessNoData ==
    resolve.called =>
        /\ (resolve.answer.DATA # EmptyData
                /\ resolve.product \notin DOMAIN resolve.answer.DATA)
            => (resolve.answer.status = 404 /\ resolve.answer.upstream = 0)
        /\ resolve.answer.DATA = EmptyData
            => /\ resolve.answer.status = 500
               /\ resolve.answer.detail = "Pastebin data is unavailable."
               /\ resolve.answer.upstream = 0

\* C11 witness: the product is absent from a DATA that holds other products,
\* RoProxy would have failed, and the answer is 404.
AbsentProductWitness ==
    /\ resolve.called
    /\ resolve.answer.DATA = OwnersData
    /\ resolve.product = "Axe"
    /\ resolve.outcome = "network_error"
    /\ resolve.answer.status = 404
    /\ req.pc = "respond" /\ req.status = 404 /\ req.upstream = 0


\* C12: two request threads of one address that have both found one free
\* place at line 161 are never both on the way to line 167 (append and
\* return True).
AdmitIsAtomic ==
    \A t1, t2 \in Threads :
        (t1 # t2 /\ thr[t1].ip = thr[t2].ip)
            => ~(/\ thr[t1].pc = "L167" /\ thr[t1].slots = 1
                 /\ thr[t2].pc = "L167" /\ thr[t2].slots = 1)


\* C13: within one call of check_rate_limit, all the reads of SETTINGS[...]
\* (lines 158, 161, 163, 164) meet the same value of the global SETTINGS.
NoTornConfigRead ==
    \A t \in Threads : Cardinality(thr[t].seen) <= 1

\* C14: the watcher thread, once started, keeps polling as long as
\* settings.json exists, whatever the file has held.
WatcherKeepsPolling ==
    [][(watcher.state = "polling" /\ file.content.json # "absent")
          => watcher'.state = "polling"]_vars

\* C16: in every state, each address's deque of timestamps is in
\* non-decreasing order from the front.
TimestampsOrdered ==
    \A ip \in DOMAIN request_timestamps :
        \A i, j \in 1..Len(request_timestamps[ip]) :
            i <= j => request_timestamps[ip][i] <= request_timestamps[ip][j]


\* The address has a ban that has not run out (lines 149-150).
BanInForce(ip) == ip \in DOMAIN ban_list /\ ban_list[ip] > now

\* Every timestamp kept for the address in `rt` is at most
\* RATE_LIMIT_PERIOD_SECONDS older than t.
AllWithinWindow(rt, ip, t) ==
    \A i \in 1..Len(Get(rt, ip, <<>>)) :
        rt[ip][i] >= t - SETTINGS.RATE_LIMIT_PERIOD_SECONDS

\* C15 (as stated): after any call of check_rate_limit for an address, the
\* calls refused because of a ban included, every timestamp still kept for the
\* address is at most RATE_LIMIT_PERIOD_SECONDS old at the time of the call.
WindowKeptAfterAnyCall ==
    [][\A ip \in IPs :
          (Arrives(ip) /\ req'.gate \in {"allowed", "denied"})
              => AllWithinWindow(request_timestamps', ip, now)]_vars

\* C15 (amended): the same for the calls that get past the ban check, that is
\* the calls answered True and the calls refused for exceeding the rate; a
\* call refused because of a ban in force trims nothing.
WindowKeptUnlessBanned ==
    [][\A ip \in IPs :
          (Arrives(ip) /\ req'.gate \in {"allowed", "denied"} /\ ~BanInForce(ip))
              => AllWithinWindow(request_timestamps', ip, now)]_vars

\* C15 witness: a call was allowed after an earlier admission of the same
\* address had left the window, and only the new timestamp is kept.
WindowKeptWitness ==
    /\ req.pc # "idle"
    /\ req.gate = "allowed"
    /\ request_timestamps[req.ip] = <<now>>
    /\ \E i \in 1..Len(admitted[req.ip]) :
           admitted[req.ip][i] < now - SETTINGS.RATE_LIMIT_PERIOD_SECONDS


\* C17: revoke_api_token(token) sets is_valid to FALSE and answers 200 when
\* the token has a valid row; when the token has no row, or its row is already
\* invalid, it answers 404 and changes no row.
RevokeFlipsOrNotFound ==
    [][(req.pc = "handler" /\ req'.pc = "respond" /\ req'.arg # "none")
          => LET token == req'.arg
             IN IF token \in DOMAIN api_tokens /\ api_tokens[token].is_valid
                THEN /\ req'.status = 200
                     /\ api_tokens' = [api_tokens EXCEPT ![token].is_valid = FALSE]
                ELSE /\ req'.status = 404
                     /\ api_tokens' = api_tokens]_vars

\* C17 witness: a token that was revoked before is revoked again, and the
\* answer is 404.
SecondRevokeWitness ==
    /\ req.pc = "respond"
    /\ req.arg \in revoked
    /\ req.arg \in DOMAIN api_tokens /\ ~api_tokens[req.arg].is_valid
    /\ req.status = 404
    /\ req.detail = "Token not found or already invalid."


\* C18 (as stated): fetch_roproxy_data with more arguments than the template
\* has fields aborts with 500 "URL formatting error" and sends nothing
\* upstream, as it does with too few arguments.
TooManyArgsIsFormattingError ==
    (call.result.kind # "none" /\ Len(call.args) > NumFields(call.template)) =>
        /\ call.result.kind = "abort"
        /\ call.result.detail = "URL formatting error"
        /\ ~call.result.requested

\* C18 (amended): with more arguments than fields, fetch_roproxy_data builds
\* the URL from the first arguments, one per field, leaves the others unused,
\* sends the request upstream and reports no formatting error.
TooManyArgsAreIgnored ==
    (call.result.kind # "none" /\ Len(call.args) > NumFields(call.template)) =>
        /\ call.result.requested
        /\ call.result.detail # "URL formatting error"
        /\ call.result.final_url =
               Format(call.template,
                      SubSeq(call.args, 1, NumFields(call.template))).url
        /\ call.outcome = "json" => call.result.kind = "json"

\* C18 witness: a template with one field was called with two arguments and
\* the upstream's JSON came back.
TooManyArgsWitness ==
    /\ call.result.kind = "json"
    /\ call.result.requested
    /\ NumFields(call.template) = 1
    /\ Len(call.args) = 2


\* q is what is left of p when entries are removed from its front.
IsSuffix(q, p) == \E k \in 0..Len(p) : q = SubSeq(p, k + 1, Len(p))

\* C19: a call of check_rate_limit refused because of a ban in force leaves
\* request_timestamps, ban_list and ban_counts as they were; a call refused
\* for exceeding the rate appends no timestamp (the deque of the address can
\* only lose entries from its front) and counts as no admission; a request
\* from a whitelisted address changes none of the three.
LimiterFrame ==
    [][\A ip \in IPs :
          Arrives(ip) =>
              /\ (req'.gate = "denied" /\ BanInForce(ip)) => UNCHANGED limiterVars
              /\ (req'.gate = "denied" /\ ~BanInForce(ip))
                    => /\ IsSuffix(Get(request_timestamps', ip, <<>>),
                                   Get(request_timestamps, ip, <<>>))
                       /\ admitted' = admitted
              /\ req'.gate = "whitelisted" => UNCHANGED limiterVars]_vars

\* C19 witness: a request was refused for exceeding the rate: it was counted
\* as a violation, and the deque holds the admitted requests only.
LimiterFrameWitness ==
    /\ req.gate = "denied"
    /\ req.status = 429
    /\ req.ip \notin DOMAIN ban_list
    /\ ban_counts[req.ip] = 1
    /\ request_timestamps[req.ip] = admitted[req.ip]
    /\ Len(request_timestamps[req.ip]) = SETTINGS.RATE_LIMIT_PER_PERIOD

\* The entry of one address in a dict of the limiter, and the rest of the
\* dict's content left out.
Only(d, ip) == [x \in DOMAIN d \cap {ip} |-> d[x]]

\* The two dicts agree on the address: the same entry, or none in either.
SameEntry(d1, d2, ip) ==
    /\ ip \in DOMAIN d1 <=> ip \in DOMAIN d2
    /\ ip \in DOMAIN d1 => d1[ip] = d2[ip]

\* C20: a call of check_rate_limit for one address leaves the entries of every
\* other address in request_timestamps, ban_list and ban_counts as they were,
\* and its result and the new entries of the address are those the call would
\* give with the other addresses' entries removed: they depend on the entries
\* of the address, the clock and SETTINGS only.
PerAddressIsolation ==
    [][\A ip \in IPs :
          (Arrives(ip) /\ req'.gate \in {"allowed", "denied"}) =>
              /\ \A other \in IPs \ {ip} :
                     /\ SameEntry(request_timestamps', request_timestamps, other)
                     /\ SameEntry(ban_list', ban_list, other)
                     /\ SameEntry(ban_counts', ban_counts, other)
              /\ LET alone == check_rate_limit(ip, now, SETTINGS,
                                               Only(request_timestamps, ip),
                                               Only(ban_list, ip), Only(ban_counts, ip))
                 IN /\ (req'.gate = "allowed") = alone.ok
                    /\ SameEntry(request_timestamps', alone.rt, ip)
                    /\ SameEntry(ban_list', alone.bl, ip)
                    /\ SameEntry(ban_counts', alone.bc, ip)]_vars

\* C20 witness: a request of ip1 is allowed while ip2 is banned, with
\* violations counted for ip2 and none for ip1.
PerAddressIsolationWitness ==
    /\ req.ip = "ip1"
    /\ req.gate = "allowed"
    /\ "ip2" \in DOMAIN ban_list /\ ban_list["ip2"] > now
    /\ "ip2" \in DOMAIN ban_counts
    /\ "ip1" \notin DOMAIN ban_counts


\* C21: a request that check_rate_limit allows has its time appended to the
\* deque of its address before require_api_token has run; when the wrapper
\* then answers 401 or 403, the deque, the violation counts and the bans stay
\* as before_request left them, so the refused request keeps its place in the
\* window.
AdmissionCountsBeforeAuth ==
    [][/\ \A ip \in IPs :
              (Arrives(ip) /\ req'.gate = "allowed")
                  => /\ req'.pc = "view"
                     /\ req'.token = "none"
                     /\ req'.trace = <<"before_request">>
                     /\ ip \in DOMAIN request_timestamps'
                     /\ request_timestamps'[ip] # <<>>
                     /\ request_timestamps'[ip][Len(request_timestamps'[ip])] = now
                     /\ admitted' = [admitted EXCEPT ![ip] = Append(@, now)]
       /\ (req.pc = "view" /\ req'.status \in {401, 403})
              => /\ UNCHANGED <<limiterVars, admitted>>
                 /\ req.gate = "allowed"
                        => /\ req.ip \in DOMAIN request_timestamps
                           /\ request_timestamps[req.ip] # <<>>]_vars

\* C21 witness: an address is refused with 429 and banned although no request
\* has ever passed the token check (no token has been used): the requests that
\* filled its window were all answered 401 or 403.
BannedByUnauthenticatedWitness ==
    /\ req.pc = "respond"
    /\ req.status = 429
    /\ req.ip \in DOMAIN ban_list /\ ban_list[req.ip] > now
    /\ ban_counts[req.ip] >= 1
    /\ Len(admitted[req.ip]) >= SETTINGS.RATE_LIMIT_PER_PERIOD
    /\ \A t \in DOMAIN api_tokens : api_tokens[t].last_used = "NULL"
    /\ issued = {} /\ revoked = {}

=============================================================================
